---- MODULE Spec2Model ----
(***************************************************************************)
(* Model of the garment layer mask pipeline of scripts/                    *)
(* generate-clothing-masks.py (and the threshold step of                   *)
(* scripts/remove-clothing-background.py).                                 *)
(*                                                                         *)
(* A mask or grayscale image is a record [h, w, px] with px the array:     *)
(* px[row][col] (0-based, as numpy indexes) is an 8-bit value.             *)
(***************************************************************************)
EXTENDS Integers, Sequences, FiniteSets, TLC

VARIABLES
  pc,             \* where main() is: "mkdir", "loop", "layer", "preview", "exit"
  masksDir,       \* "absent" or "dir": PUBLIC_DIR/masks
  files,          \* the files of masks/: path |-> content
  source,         \* template |-> its source file: [kind, image]
  idx,            \* position of main's for loop in CLOTHING_IMAGES
  layers,         \* process_clothing_image: the items of `layers`
  li,             \* process_clothing_image: position of its for loop
  shape,          \* process_clothing_image: (h, w) of line 131
  success_count,  \* main: success_count
  results,        \* template |-> what process_clothing_image returned
  printed,        \* the counts of the "Processed n/N images" lines printed
  preview,        \* the versions of masks-preview.html written: img paths
  exc,            \* "none", or the call whose exception ended main()
  exitCode,       \* <<>> while running, then <<the exit status>>
  log,            \* history: the directory creations, loads and writes so far
  arg,            \* a component called alone: its input
  ret,            \* a component called alone: what it returned
  par             \* the templates run side by side: each one's position

vars == <<pc, masksDir, files, source, idx, layers, li, shape, success_count,
          results, printed, preview, exc, exitCode, log, arg, ret, par>>

batchVars == <<pc, masksDir, files, source, idx, layers, li, shape,
               success_count, results, printed, preview, exc, exitCode, log, par>>

(***************************************************************************)
(* Python float arithmetic.  The code multiplies an int by a float literal *)
(* (h * 0.45, h * 0.05, h * 0.35, h * w * 0.01): an IEEE-754 double        *)
(* product, rounded to nearest-even at 53 significant bits.  A literal c   *)
(* is held exactly as the integer c * 2^60 in four 15-bit limbs (least     *)
(* significant first), so that every intermediate stays below 2^31.        *)
(***************************************************************************)
Limb == 2^15

F045 == <<13120, 26214, 19660, 14745>>   \* the double nearest 0.45
F005 == <<19664, 6553, 13107, 1638>>     \* the double nearest 0.05
F035 == <<6528, 13107, 26214, 11468>>    \* the double nearest 0.35
F001 == <<10486, 7864, 22282, 327>>      \* the double nearest 0.01
F050 == <<0, 0, 0, 16384>>               \* 0.5
F040 == <<26240, 19660, 6553, 13107>>    \* the double nearest 0.4

RECURSIVE BitLen(_)
BitLen(n) == IF n = 0 THEN 0 ELSE 1 + BitLen(n \div 2)

\* n * c for an int 0 <= n < 2^16 and a float literal c: the double result,
\* as its integer part and whether it is a whole number.
FloatMul(n, c) ==
  LET r0 == n * c[1]
      l0 == r0 % Limb
      r1 == n * c[2] + (r0 \div Limb)
      l1 == r1 % Limb
      r2 == n * c[3] + (r1 \div Limb)
      l2 == r2 % Limb
      r3 == n * c[4] + (r2 \div Limb)
      l3 == r3 % Limb
      ip == r3 \div Limb                 \* integer part of the exact product
      bits == IF ip > 0 THEN 60 + BitLen(ip) ELSE 45 + BitLen(l3)
      s == bits - 53                     \* low bits the double cannot hold
      low == l1 * Limb + l0
      half == 2^(s - 1)
      up == l3 = Limb - 1 /\ l2 = Limb - 1 /\ (2^30 - low) <= half
      down == l3 = 0 /\ l2 = 0 /\ low <= half
  IN  IF n = 0 THEN [int |-> 0, whole |-> TRUE]
      ELSE [int |-> IF up THEN ip + 1 ELSE ip, whole |-> up \/ down]

\* int(n * c): Python's int() truncates, and the product is not negative.
IntMul(n, c) == FloatMul(n, c).int

\* k < n * c for an int k.
LessThanMul(k, n, c) ==
  LET p == FloatMul(n, c) IN k < p.int \/ (k = p.int /\ ~p.whole)

(***************************************************************************)
(* Program constants.                                                      *)
(***************************************************************************)
MaskThreshold == 230         \* generate-clothing-masks.py
BackgroundThreshold == 240   \* remove-clothing-background.py
MaxVal == 255
KernelSize == 5

CLOTHING_IMAGES ==
  << <<"startup", "hoodie">>, <<"startup", "polo">>,
     <<"startup", "button_down">>, <<"business", "casual">> >>

\* The names generate_preview_html looks for.
PreviewLayers == <<"topLayer", "baseLayer", "bottom", "shoes">>

(***************************************************************************)
(* Images and masks.                                                       *)
(***************************************************************************)
Rows(m) == 0 .. m.h - 1
Cols(m) == 0 .. m.w - 1

\* The positions <<row, col>> of an array, and array[row, col].
Pixels(m) == Rows(m) \X Cols(m)
At(m, p) == m.px[p[1]][p[2]]

\* The arrays of shape (h, w) with values in vals.
Arrays(h, w, vals) ==
  {[h |-> h, w |-> w, px |-> f] : f \in [0 .. h - 1 -> [0 .. w - 1 -> vals]]}

RECURSIVE ArraysUpTo(_, _, _, _)
\* The arrays with values in vals of the first n shapes of (1, 1), (1, 2),
\* ..., (1, maxW), (2, 1), ... that have at most area pixels.
ArraysUpTo(n, maxW, area, vals) ==
  IF n = 0 THEN {}
  ELSE LET h == ((n - 1) \div maxW) + 1
           w == ((n - 1) % maxW) + 1
       IN  (IF h * w <= area THEN Arrays(h, w, vals) ELSE {})
             \cup ArraysUpTo(n - 1, maxW, area, vals)

\* m is an array of shape (h, w).
Shaped(m, h, w) ==
  /\ m.h = h /\ m.w = w
  /\ DOMAIN m.px = 0 .. h - 1
  /\ \A r \in 0 .. h - 1 : DOMAIN m.px[r] = 0 .. w - 1

Max(a, b) == IF a >= b THEN a ELSE b
Min(a, b) == IF a <= b THEN a ELSE b

\* A threshold that sends a pixel equal to thresh to the background.
ThresholdStrictlyBelow(gray, thresh) ==
  [gray EXCEPT !.px = [r \in Rows(gray) |-> [c \in Cols(gray) |->
                         IF gray.px[r][c] >= thresh THEN 0 ELSE 255]]]

\* THRESH_BINARY in place of THRESH_BINARY_INV: bright pixels are kept.
ThresholdBinary(gray, thresh) ==
  [gray EXCEPT !.px = [r \in Rows(gray) |-> [c \in Cols(gray) |->
                         IF gray.px[r][c] > thresh THEN 255 ELSE 0]]]

\* cv2.threshold(gray, thresh, 255, cv2.THRESH_BINARY_INV):
\* dst = 0 where src > thresh, maxval otherwise.
ThresholdBinaryInv(gray, thresh) ==
  [gray EXCEPT !.px = [r \in Rows(gray) |-> [c \in Cols(gray) |->
                         IF gray.px[r][c] > thresh THEN 0 ELSE MaxVal]]]

\* The rows and the columns of the (2k+1) x (2k+1) neighbourhood of a pixel that
\* lie inside the image: the default border of cv2.morphologyEx never
\* decides a pixel.
RowsAround(m, r, k) == Max(0, r - k) .. Min(m.h - 1, r + k)
ColsAround(m, c, k) == Max(0, c - k) .. Min(m.w - 1, c + k)

\* Erosion under a constant border of zeros: what lies outside the image
\* counts as background.
ErodeZeroBorder(m, k) ==
  [m EXCEPT !.px = [r \in Rows(m) |-> [c \in Cols(m) |->
                      IF /\ r - k >= 0 /\ r + k <= m.h - 1
                         /\ c - k >= 0 /\ c + k <= m.w - 1
                         /\ \A i \in RowsAround(m, r, k), j \in ColsAround(m, c, k) :
                              m.px[i][j] = MaxVal
                        THEN MaxVal ELSE 0]]]

Dilate(m, k) ==
  [m EXCEPT !.px = [r \in Rows(m) |-> [c \in Cols(m) |->
                      IF \E i \in RowsAround(m, r, k), j \in ColsAround(m, c, k) :
                           m.px[i][j] = MaxVal
                        THEN MaxVal ELSE 0]]]

Erode(m, k) ==
  [m EXCEPT !.px = [r \in Rows(m) |-> [c \in Cols(m) |->
                      IF \A i \in RowsAround(m, r, k), j \in ColsAround(m, c, k) :
                           m.px[i][j] = MaxVal
                        THEN MaxVal ELSE 0]]]

MorphClose(m, ksize) == Erode(Dilate(m, ksize \div 2), ksize \div 2)
MorphOpen(m, ksize) == Dilate(Erode(m, ksize \div 2), ksize \div 2)

\* cv2.MORPH_DILATE passed where line 62 passes cv2.MORPH_OPEN.
CleanCloseThenDilate(m, ksize) == Dilate(MorphClose(m, ksize), ksize \div 2)

\* Lines 59-62: closing, then opening, with one ksize x ksize kernel of ones.
Clean(m, ksize) == MorphOpen(MorphClose(m, ksize), ksize)

\* remove_background without lines 59-62: the thresholded mask as it is.
RemoveBackgroundUncleaned(gray) == ThresholdBinaryInv(gray, 230)

\* remove_background after a successful imread: gray is the result of
\* cv2.cvtColor(img, cv2.COLOR_BGR2GRAY).
RemoveBackground(gray) ==
  Clean(ThresholdBinaryInv(gray, MaskThreshold), KernelSize)

(***************************************************************************)
(* Region Decomposer.                                                      *)
(***************************************************************************)
\* dst = zeros_like(mask); dst[lo:hi, :] = mask[lo:hi, :]
CopyRows(mask, lo, hi) ==
  [mask EXCEPT !.px = [r \in Rows(mask) |-> [c \in Cols(mask) |->
                         IF lo <= r /\ r < hi THEN mask.px[r][c] ELSE 0]]]

\* The docstring's "upper 40%" taken for the end of the top band.
TopMaskToFortyPercent(mask) == CopyRows(mask, 0, IntMul(mask.h, F040))

TopMask(mask) == CopyRows(mask, 0, IntMul(mask.h, F045))

\* A collar band that runs on to the middle of the image.
BaseMaskToHalf(mask) == CopyRows(mask, IntMul(mask.h, F005), IntMul(mask.h, F050))

BaseMask(mask) == CopyRows(mask, IntMul(mask.h, F005), IntMul(mask.h, F035))

\* The docstring's "lower 50%" taken for the start of the bottom band.
BottomMaskFromHalf(mask) == CopyRows(mask, IntMul(mask.h, F050), mask.h)

BottomMask(mask) == CopyRows(mask, IntMul(mask.h, F045), mask.h)

\* A decomposer that also emits the fourth name the docstring lists.
split_clothing_layers_with_shoes(mask) ==
  << [name |-> "topLayer", mask |-> TopMask(mask)],
     [name |-> "baseLayer", mask |-> BaseMask(mask)],
     [name |-> "bottom", mask |-> BottomMask(mask)],
     [name |-> "shoes", mask |-> BottomMask(mask)] >>

\* The dict split_clothing_layers returns, as its items in insertion order.
split_clothing_layers(mask) ==
  << [name |-> "topLayer", mask |-> TopMask(mask)],
     [name |-> "baseLayer", mask |-> BaseMask(mask)],
     [name |-> "bottom", mask |-> BottomMask(mask)] >>

(***************************************************************************)
(* Layer Significance Filter.                                              *)
(***************************************************************************)
RECURSIVE SumBetween(_, _, _)
\* The sum of the values of pixels lo .. hi-1 in row-major order, by halves.
SumBetween(m, lo, hi) ==
  IF hi <= lo THEN 0
  ELSE IF hi = lo + 1 THEN m.px[lo \div m.w][lo % m.w]
  ELSE LET mid == (lo + hi) \div 2
       IN  SumBetween(m, lo, mid) + SumBetween(m, mid, hi)

\* np.sum(layer_mask): uint8 values accumulate in a 64-bit integer.
NpSum(m) == SumBetween(m, 0, m.h * m.w)

RECURSIVE CountBetween(_, _, _)
CountBetween(m, lo, hi) ==
  IF hi <= lo THEN 0
  ELSE IF hi = lo + 1
    THEN (IF m.px[lo \div m.w][lo % m.w] = 255 THEN 1 ELSE 0)
  ELSE LET mid == (lo + hi) \div 2
       IN  CountBetween(m, lo, mid) + CountBetween(m, mid, hi)

\* np.sum(layer_mask == 255)
WhitePixels(m) == CountBetween(m, 0, m.h * m.w)

\* The 1% rule applied to every layer, not to baseLayer alone.
LayerAcceptedDensityForAll(layer_name, layer_mask, h, w) ==
  IF LessThanMul(WhitePixels(layer_mask), h * w, F001) THEN FALSE
  ELSE IF NpSum(layer_mask) = 0 THEN FALSE
  ELSE TRUE

\* Lines 138-148: TRUE when the loop body reaches save_mask.
LayerAccepted(layer_name, layer_mask, h, w) ==
  IF layer_name = "baseLayer" /\ LessThanMul(WhitePixels(layer_mask), h * w, F001)
    THEN FALSE
  ELSE IF NpSum(layer_mask) = 0 THEN FALSE
  ELSE TRUE

(***************************************************************************)
(* Mask Encoder.                                                           *)
(***************************************************************************)
\* RGB white only where the mask is white, as the comment of line 104 reads.
MaskArtifactWhiteWhereMask(mask) ==
  [h |-> mask.h, w |-> mask.w,
   px |-> [r \in Rows(mask) |-> [c \in Cols(mask) |->
             <<mask.px[r][c], mask.px[r][c], mask.px[r][c], mask.px[r][c]>>]]]

\* The RGBA array save_mask builds and PNG stores losslessly.
MaskArtifact(mask) ==
  [h |-> mask.h, w |-> mask.w,
   px |-> [r \in Rows(mask) |-> [c \in Cols(mask) |->
             <<255, 255, 255, mask.px[r][c]>>]]]

TemplateId(t) == CLOTHING_IMAGES[t][1] \o "-" \o CLOTHING_IMAGES[t][2]

\* A file name built from the style alone, without the detail.
OutputPathByStyle(t, layer_name) ==
  "masks/" \o CLOTHING_IMAGES[t][1] \o "-" \o layer_name \o ".png"

\* MASKS_DIR / f"{template_id}-{layer_name}.png", relative to PUBLIC_DIR.
OutputPath(t, layer_name) ==
  "masks/" \o TemplateId(t) \o "-" \o layer_name \o ".png"

(***************************************************************************)
(* The batch: main() of generate-clothing-masks.py, run as a script.       *)
(***************************************************************************)
NumTemplates == Len(CLOTHING_IMAGES)

\* image_path.exists() and cv2.imread(...) is not None
Loaded(t) == source[t].kind = "image"

Event(op, t, path) == [op |-> op, t |-> t, path |-> path]

WriteFile(fs, path, content) ==
  [p \in DOMAIN fs \cup {path} |-> IF p = path THEN content ELSE fs[p]]

\* An uncaught exception leaves main(); the handler at line 261 exits 1.
Raise(what) ==
  /\ exc' = what
  /\ pc' = "exit"
  /\ exitCode' = <<1>>

\* mkdir without exist_ok: an existing directory raises FileExistsError.
create_mask_directories_no_exist_ok ==
  /\ pc = "mkdir"
  /\ log' = Append(log, Event("mkdir", 0, ""))
  /\ \/ /\ masksDir = "absent"
        /\ masksDir' = "dir"
        /\ pc' = "loop"
        /\ UNCHANGED <<exc, exitCode>>
     \/ /\ Raise("mkdir")
        /\ UNCHANGED masksDir
  /\ UNCHANGED <<files, source, idx, layers, li, shape, success_count,
                 results, printed, preview, arg, ret, par>>

\* Line 235.  mkdir(parents=True, exist_ok=True) leaves an existing
\* directory as it is; creating a missing one can fail with an OSError.
create_mask_directories ==
  /\ pc = "mkdir"
  /\ log' = Append(log, Event("mkdir", 0, ""))
  /\ \/ /\ masksDir' = "dir"
        /\ pc' = "loop"
        /\ UNCHANGED <<exc, exitCode>>
     \/ /\ masksDir = "absent"
        /\ Raise("mkdir")
        /\ UNCHANGED masksDir
  /\ UNCHANGED <<files, source, idx, layers, li, shape, success_count,
                 results, printed, preview, arg, ret, par>>

\* remove_background without its None check: cvtColor raises on an image
\* that did not decode.
process_clothing_image_no_none_check ==
  /\ pc = "loop"
  /\ idx <= NumTemplates
  /\ log' = Append(log, Event("load", idx, ""))
  /\ IF Loaded(idx)
       THEN /\ layers' = split_clothing_layers(RemoveBackground(source[idx].image))
            /\ shape' = [h |-> source[idx].image.h, w |-> source[idx].image.w]
            /\ li' = 1
            /\ pc' = "layer"
            /\ UNCHANGED <<results, idx, exc, exitCode>>
       ELSE IF source[idx].kind = "undecodable"
         THEN /\ Raise("load")
              /\ UNCHANGED <<layers, shape, li, results, idx>>
         ELSE /\ results' = [results EXCEPT ![idx] = "False"]
              /\ idx' = idx + 1
              /\ UNCHANGED <<layers, shape, li, pc, exc, exitCode>>
  /\ UNCHANGED <<masksDir, files, source, success_count, printed, preview,
                 arg, ret, par>>

\* Lines 239-240 and 115-134: the loop takes the next template and
\* process_clothing_image runs up to its own loop; or returns False at
\* line 120 (no such file) or 127 (imread gave None), which main skips over.
process_clothing_image ==
  /\ pc = "loop"
  /\ idx <= NumTemplates
  /\ log' = Append(log, Event("load", idx, ""))
  /\ IF Loaded(idx)
       THEN /\ layers' = split_clothing_layers(RemoveBackground(source[idx].image))
            /\ shape' = [h |-> source[idx].image.h, w |-> source[idx].image.w]
            /\ li' = 1
            /\ pc' = "layer"
            /\ UNCHANGED <<results, idx>>
       ELSE /\ results' = [results EXCEPT ![idx] = "False"]
            /\ idx' = idx + 1
            /\ UNCHANGED <<layers, shape, li, pc>>
  /\ UNCHANGED <<masksDir, files, source, success_count, printed, preview,
                 exc, exitCode, arg, ret, par>>

NoImage == [h |-> 0, w |-> 0, px |-> <<>>]
\* A file some earlier run left, and a file whose writing broke off.
Old == [kind |-> "old", image |-> NoImage]
Partial == [kind |-> "partial", image |-> NoImage]

\* save_mask with the error of Image.save caught and the loop going on.
save_mask_error_caught ==
  LET layer == layers[li]
      path == OutputPath(idx, layer.name)
  IN  \/ /\ files' = WriteFile(files, path, [kind |-> "png", image |-> MaskArtifact(layer.mask)])
         /\ log' = Append(log, Event("write", idx, path))
         /\ li' = li + 1
         /\ UNCHANGED <<pc, exc, exitCode>>
      \/ /\ files' \in {files, WriteFile(files, path, Partial)}
         /\ log' = Append(log, Event("write_failed", idx, path))
         /\ li' = li + 1
         /\ UNCHANGED <<pc, exc, exitCode>>

\* Lines 98-111 for the layer at hand: Image.save writes the PNG, or raises
\* and leaves the file as it was or partly written.
save_mask ==
  LET layer == layers[li]
      path == OutputPath(idx, layer.name)
  IN  \/ /\ files' = WriteFile(files, path, [kind |-> "png", image |-> MaskArtifact(layer.mask)])
         /\ log' = Append(log, Event("write", idx, path))
         /\ li' = li + 1
         /\ UNCHANGED <<pc, exc, exitCode>>
      \/ /\ files' \in {files, WriteFile(files, path, Partial)}
         /\ log' = Append(log, Event("write_failed", idx, path))
         /\ Raise("save")
         /\ UNCHANGED li

\* A loop that unlinks the file of a layer it rejects.
process_layer_unlink_rejected ==
  /\ pc = "layer"
  /\ li <= Len(layers)
  /\ IF LayerAccepted(layers[li].name, layers[li].mask, shape.h, shape.w)
       THEN save_mask
       ELSE /\ li' = li + 1
            /\ files' = [p \in DOMAIN files \ {OutputPath(idx, layers[li].name)} |->
                           files[p]]
            /\ UNCHANGED <<log, pc, exc, exitCode>>
  /\ UNCHANGED <<masksDir, source, idx, layers, shape, success_count,
                 results, printed, preview, arg, ret, par>>

\* Lines 137-151: one turn of the loop over layers.items().
process_layer ==
  /\ pc = "layer"
  /\ li <= Len(layers)
  /\ IF LayerAccepted(layers[li].name, layers[li].mask, shape.h, shape.w)
       THEN save_mask
       ELSE /\ li' = li + 1
            /\ UNCHANGED <<files, log, pc, exc, exitCode>>
  /\ UNCHANGED <<masksDir, source, idx, layers, shape, success_count,
                 results, printed, preview, arg, ret, par>>

\* A template that counts only when one of its layers was saved.
return_true_if_saved ==
  /\ pc = "layer"
  /\ li > Len(layers)
  /\ IF \E i \in 1 .. Len(log) : log[i].op = "write" /\ log[i].t = idx
       THEN /\ results' = [results EXCEPT ![idx] = "True"]
            /\ success_count' = success_count + 1
       ELSE /\ results' = [results EXCEPT ![idx] = "False"]
            /\ UNCHANGED success_count
  /\ idx' = idx + 1
  /\ pc' = "loop"
  /\ layers' = <<>>
  /\ UNCHANGED <<masksDir, files, source, li, shape, printed, preview,
                 exc, exitCode, log, arg, ret, par>>

\* Line 153, then lines 240-241 of main.
return_true ==
  /\ pc = "layer"
  /\ li > Len(layers)
  /\ results' = [results EXCEPT ![idx] = "True"]
  /\ success_count' = success_count + 1
  /\ idx' = idx + 1
  /\ pc' = "loop"
  /\ layers' = <<>>
  /\ UNCHANGED <<masksDir, files, source, li, shape, printed, preview,
                 exc, exitCode, log, arg, ret, par>>

\* The summary and the preview reached one template early.
report_before_last ==
  /\ pc = "loop"
  /\ idx >= NumTemplates
  /\ printed' = Append(printed, success_count)
  /\ pc' = "preview"
  /\ UNCHANGED <<masksDir, files, source, idx, layers, li, shape,
                 success_count, results, preview, exc, exitCode, log, arg, ret, par>>

\* Lines 243-245.
report ==
  /\ pc = "loop"
  /\ idx > NumTemplates
  /\ printed' = Append(printed, success_count)
  /\ pc' = "preview"
  /\ UNCHANGED <<masksDir, files, source, idx, layers, li, shape,
                 success_count, results, preview, exc, exitCode, log, arg, ret, par>>

\* The img tags generate_preview_html emits: the masks that exist.
PreviewList ==
  [t \in 1 .. NumTemplates |->
     SelectSeq([i \in 1 .. Len(PreviewLayers) |-> OutputPath(t, PreviewLayers[i])],
               LAMBDA p : p \in DOMAIN files)]

\* Lines 248-253: the preview page is written (or open() raises), and the
\* script ends.
generate_preview_html ==
  /\ pc = "preview"
  /\ log' = Append(log, Event("preview", 0, ""))
  /\ \/ /\ preview' = Append(preview, PreviewList)
        /\ pc' = "exit"
        /\ exitCode' = <<0>>
        /\ UNCHANGED exc
     \/ /\ Raise("preview")
        /\ UNCHANGED preview
  /\ UNCHANGED <<masksDir, files, source, idx, layers, li, shape,
                 success_count, results, printed, arg, ret, par>>

(***************************************************************************)
(* The inputs of a batch run.                                              *)
(***************************************************************************)
SrcH == 60

\* A one-column grayscale image, dark in rows a .. b-1 and white elsewhere.
Column(h, a, b, dark) ==
  [h |-> h, w |-> 1,
   px |-> [r \in 0 .. h - 1 |-> [c \in {0} |->
             IF a <= r /\ r < b THEN dark ELSE 255]]]

SourceImages ==
  { Column(SrcH, 0, 0, 0),                     \* backdrop only
    Column(SrcH, 0, SrcH, 128),                \* garment everywhere
    Column(SrcH, 0, 3, MaskThreshold),         \* garment in the top rows only
    Column(SrcH, SrcH - 5, SrcH, 0),           \* garment in the last rows only
    Column(SrcH, SrcH \div 2, SrcH \div 2 + 1, 0) }   \* one dark row: a speckle

Sources ==
  {[kind |-> "missing", image |-> NoImage],
   [kind |-> "undecodable", image |-> NoImage]}
    \cup {[kind |-> "image", image |-> g] : g \in SourceImages}

AllPaths ==
  {OutputPath(t, PreviewLayers[i]) :
     t \in 1 .. NumTemplates, i \in 1 .. Len(PreviewLayers)}

\* What an earlier run may have left: no directory, or a directory with a
\* file for every mask name.
Disks ==
  { [dir |-> "absent", files |-> [p \in {} |-> Old]],
    [dir |-> "dir", files |-> [p \in AllPaths |-> Old]] }

Idle == [kind |-> "none"]

Init ==
  /\ pc = "mkdir"
  /\ \E d \in Disks : masksDir = d.dir /\ files = d.files
  /\ source \in [1 .. NumTemplates -> Sources]
  /\ idx = 1
  /\ layers = <<>>
  /\ li = 1
  /\ shape = [h |-> 0, w |-> 0]
  /\ success_count = 0
  /\ results = [t \in 1 .. NumTemplates |-> "none"]
  /\ printed = <<>>
  /\ preview = <<>>
  /\ exc = "none"
  /\ exitCode = <<>>
  /\ log = <<>>
  /\ arg = Idle
  /\ ret = Idle
  /\ par = <<>>

Next ==
  \/ create_mask_directories
  \/ process_clothing_image
  \/ process_layer
  \/ return_true
  \/ report
  \/ generate_preview_html

Spec == Init /\ [][Next]_vars

(***************************************************************************)
(* The end-to-end scenarios: a batch whose first template is a 200-row     *)
(* image, the other source files missing.                                  *)
(***************************************************************************)
\* 200 rows by 100 columns, every pixel of luminance 128.
MidGray200x100 ==
  [h |-> 200, w |-> 100, px |-> [r \in 0 .. 199 |-> [c \in 0 .. 99 |-> 128]]]

\* 200-row columns, dark in rows a .. b-1 within rows 0 .. 30, else white.
UpperGarments == {Column(200, a, b, 0) : a \in 0 .. 31, b \in 0 .. 31}

ScenarioImages == {MidGray200x100} \cup UpperGarments

ScenarioInit ==
  /\ pc = "mkdir"
  /\ \E d \in Disks : masksDir = d.dir /\ files = d.files
  /\ \E g \in ScenarioImages :
       source = [t \in 1 .. NumTemplates |->
                   IF t = 1 THEN [kind |-> "image", image |-> g]
                   ELSE [kind |-> "missing", image |-> NoImage]]
  /\ idx = 1
  /\ layers = <<>>
  /\ li = 1
  /\ shape = [h |-> 0, w |-> 0]
  /\ success_count = 0
  /\ results = [t \in 1 .. NumTemplates |-> "none"]
  /\ printed = <<>>
  /\ preview = <<>>
  /\ exc = "none"
  /\ exitCode = <<>>
  /\ log = <<>>
  /\ arg = Idle
  /\ ret = Idle
  /\ par = <<>>

ScenarioSpec == ScenarioInit /\ [][Next]_vars

(***************************************************************************)
(* The components called alone, on inputs drawn from bounded sets.         *)
(***************************************************************************)
MaxGrayH == 3
MaxH == 4
MaxW == 2
MaxColH == 200
MaxColK == 10

\* Luminances around both thresholds, and the extremes.
Lums ==
  {0, 128, MaskThreshold - 1, MaskThreshold, MaskThreshold + 1,
   BackgroundThreshold - 1, BackgroundThreshold, BackgroundThreshold + 1, 255}

GrayColumns ==
  UNION {Arrays(h, 1, Lums) : h \in 1 .. MaxGrayH}

\* Every binary mask of up to MaxH rows and MaxW columns.
SmallMasks ==
  ArraysUpTo(MaxH * MaxW, MaxW, MaxH * MaxW, {0, MaxVal})

\* The all-foreground column of every height up to MaxColH.
FullColumns ==
  {[h |-> h, w |-> 1, px |-> [r \in 0 .. h - 1 |-> [c \in {0} |-> MaxVal]]] :
     h \in 1 .. MaxColH}

\* Columns of 20, 40, ... rows whose first n rows are foreground.
RunColumns ==
  UNION {{[h |-> 20 * k, w |-> 1,
            px |-> [r \in 0 .. 20 * k - 1 |-> [c \in {0} |->
                      IF r < n THEN MaxVal ELSE 0]]] :
            n \in 0 .. 20 * k} :
           k \in 1 .. MaxColK}

Args ==
  {[kind |-> "gray", image |-> g, thresh |-> t] :
     g \in GrayColumns, t \in {MaskThreshold, BackgroundThreshold}}
    \cup {[kind |-> "mask", image |-> m, thresh |-> 0] :
             m \in SmallMasks \cup FullColumns \cup RunColumns}

FnInit ==
  /\ arg \in Args
  /\ ret = [stage |-> "input"]
  /\ pc = "idle"
  /\ masksDir = "absent"
  /\ files = [p \in {} |-> Old]
  /\ source = [t \in 1 .. NumTemplates |-> [kind |-> "missing", image |-> NoImage]]
  /\ idx = 1
  /\ layers = <<>>
  /\ li = 1
  /\ shape = [h |-> 0, w |-> 0]
  /\ success_count = 0
  /\ results = [t \in 1 .. NumTemplates |-> "none"]
  /\ printed = <<>>
  /\ preview = <<>>
  /\ exc = "none"
  /\ exitCode = <<>>
  /\ log = <<>>
  /\ par = <<>>

\* The threshold step of remove_background / remove_white_background.
FnThreshold ==
  /\ arg.kind = "gray"
  /\ ret.stage = "input"
  /\ ret' = [stage |-> "mask",
             mask |-> ThresholdBinaryInv(arg.image, arg.thresh)]
  /\ UNCHANGED <<arg, batchVars>>

FnSplit ==
  /\ arg.kind = "mask"
  /\ ret.stage = "input"
  /\ ret' = [stage |-> "layers", layers |-> split_clothing_layers(arg.image)]
  /\ UNCHANGED <<arg, batchVars>>

\* The filter of process_clothing_image on each layer, with h, w the shape
\* of the image the mask came from.
FnFilter ==
  /\ ret.stage = "layers"
  /\ ret' = [stage |-> "filtered", layers |-> ret.layers,
             accepted |-> [i \in 1 .. Len(ret.layers) |->
                            LayerAccepted(ret.layers[i].name, ret.layers[i].mask,
                                          arg.image.h, arg.image.w)]]
  /\ UNCHANGED <<arg, batchVars>>

\* save_mask's array for each accepted layer.
FnEncode ==
  /\ ret.stage = "filtered"
  /\ ret' = [stage |-> "encoded", layers |-> ret.layers,
             accepted |-> ret.accepted,
             artifacts |-> [i \in {j \in 1 .. Len(ret.layers) : ret.accepted[j]} |->
                             MaskArtifact(ret.layers[i].mask)]]
  /\ UNCHANGED <<arg, batchVars>>

FnNext == FnThreshold \/ FnSplit \/ FnFilter \/ FnEncode

FnSpec == FnInit /\ [][FnNext]_vars

(***************************************************************************)
(* process_clothing_image called for every template at once: each call     *)
(* takes its steps (the load, then one turn of its loop per layer) in its  *)
(* own order, interleaved with the steps of the others.  par holds the     *)
(* disk the calls started from and each call's locals.                     *)
(***************************************************************************)
ParH == 20

ParSources ==
  {[kind |-> "missing", image |-> NoImage],
   [kind |-> "image", image |-> Column(ParH, 0, ParH, 128)],
   [kind |-> "image", image |-> Column(ParH, 0, 5, 0)]}

ParInit ==
  /\ source \in [1 .. NumTemplates -> ParSources]
  /\ masksDir = "dir"
  /\ files \in {[p \in {} |-> Old], [p \in AllPaths |-> Old]}
  /\ par = [disk |-> files,
            proc |-> [t \in 1 .. NumTemplates |->
                       [pc |-> "load", layers |-> <<>>, li |-> 1,
                        shape |-> [h |-> 0, w |-> 0]]]]
  /\ pc = "parallel"
  /\ idx = 1
  /\ layers = <<>>
  /\ li = 1
  /\ shape = [h |-> 0, w |-> 0]
  /\ success_count = 0
  /\ results = [t \in 1 .. NumTemplates |-> "none"]
  /\ printed = <<>>
  /\ preview = <<>>
  /\ exc = "none"
  /\ exitCode = <<>>
  /\ log = <<>>
  /\ arg = Idle
  /\ ret = Idle

\* Lines 115-134 in the call for template t.
par_process_clothing_image(t) ==
  /\ par.proc[t].pc = "load"
  /\ IF Loaded(t)
       THEN par' = [par EXCEPT !.proc[t] =
                      [pc |-> "layer",
                       layers |-> split_clothing_layers(RemoveBackground(source[t].image)),
                       li |-> 1,
                       shape |-> [h |-> source[t].image.h, w |-> source[t].image.w]]]
       ELSE par' = [par EXCEPT !.proc[t].pc = "done"]
  /\ results' = [results EXCEPT ![t] = IF Loaded(t) THEN "none" ELSE "False"]
  /\ UNCHANGED <<pc, masksDir, files, source, idx, layers, li, shape,
                 success_count, printed, preview, exc, exitCode, log, arg, ret>>

\* Lines 137-151 in the call for template t: one turn of its loop, the
\* save completing.
par_process_layer(t) ==
  LET me == par.proc[t]
  IN  /\ me.pc = "layer"
      /\ me.li <= Len(me.layers)
      /\ IF LayerAccepted(me.layers[me.li].name, me.layers[me.li].mask,
                          me.shape.h, me.shape.w)
           THEN files' = WriteFile(files, OutputPath(t, me.layers[me.li].name),
                                   [kind |-> "png",
                                    image |-> MaskArtifact(me.layers[me.li].mask)])
           ELSE UNCHANGED files
      /\ par' = [par EXCEPT !.proc[t].li = me.li + 1]
      /\ UNCHANGED <<pc, masksDir, source, idx, layers, li, shape, success_count,
                     results, printed, preview, exc, exitCode, log, arg, ret>>

\* Line 153 in the call for template t.
par_return_true(t) ==
  /\ par.proc[t].pc = "layer"
  /\ par.proc[t].li > Len(par.proc[t].layers)
  /\ par' = [par EXCEPT !.proc[t].pc = "done"]
  /\ results' = [results EXCEPT ![t] = "True"]
  /\ UNCHANGED <<pc, masksDir, files, source, idx, layers, li, shape,
                 success_count, printed, preview, exc, exitCode, log, arg, ret>>

ParNext ==
  \E t \in 1 .. NumTemplates :
    \/ par_process_clothing_image(t)
    \/ par_process_layer(t)
    \/ par_return_true(t)

ParSpec == ParInit /\ [][ParNext]_vars

RECURSIVE SequentialLayers(_, _, _, _)
\* The files after the loop of lines 137-151 for template t, from its turn i
\* on, every save completing.
SequentialLayers(fs, t, ls, i) ==
  IF i > Len(ls) THEN fs
  ELSE SequentialLayers(
         IF LayerAccepted(ls[i].name, ls[i].mask, source[t].image.h, source[t].image.w)
           THEN WriteFile(fs, OutputPath(t, ls[i].name),
                          [kind |-> "png", image |-> MaskArtifact(ls[i].mask)])
           ELSE fs,
         t, ls, i + 1)

RECURSIVE SequentialFiles(_, _)
\* The files after main's loop of lines 239-241 from template t on.
SequentialFiles(fs, t) ==
  IF t > NumTemplates THEN fs
  ELSE SequentialFiles(
         IF Loaded(t)
           THEN SequentialLayers(
                  fs, t, split_clothing_layers(RemoveBackground(source[t].image)), 1)
           ELSE fs,
         t + 1)

(***************************************************************************)
(* The segmenter and its cleaning step called alone.                       *)
(***************************************************************************)
MaxUniform == 8
MaxCleanArea == 10
MaxGrid == 7

\* Source images of one colour, pure black or pure white, of every shape.
UniformImages ==
  {[h |-> d[1], w |-> d[2],
    px |-> [r \in 0 .. d[1] - 1 |-> [c \in 0 .. d[2] - 1 |-> v]]] :
     d \in (1 .. MaxUniform) \X (1 .. MaxUniform), v \in {0, 255}}

\* Every binary mask of up to MaxCleanArea pixels, of whatever shape.
CleanSmallMasks ==
  ArraysUpTo(MaxCleanArea * MaxCleanArea, MaxCleanArea, MaxCleanArea, {0, MaxVal})

\* A rectangle of one value on a MaxGrid x MaxGrid mask of the other: a
\* garment block or a hole, down to a single pixel, anywhere in the image.
RectMasks ==
  {[h |-> MaxGrid, w |-> MaxGrid,
    px |-> [r \in 0 .. MaxGrid - 1 |-> [c \in 0 .. MaxGrid - 1 |->
              IF a[1] <= r /\ r <= b[1] /\ a[2] <= c /\ c <= b[2]
                THEN v ELSE MaxVal - v]]] :
     a \in (0 .. MaxGrid - 1) \X (0 .. MaxGrid - 1),
     b \in (0 .. MaxGrid - 1) \X (0 .. MaxGrid - 1),
     v \in {0, MaxVal}}

\* The kernel sizes of the two scripts: np.ones((5, 5)) and np.ones((3, 3)).
KernelSizes == {KernelSize, 3}

CleanerArgs ==
  {[kind |-> "source", image |-> g, ksize |-> KernelSize] : g \in UniformImages}
    \cup {[kind |-> "mask", image |-> m, ksize |-> k] :
             m \in CleanSmallMasks \cup RectMasks, k \in KernelSizes}

CleanerInit ==
  /\ arg \in CleanerArgs
  /\ ret = [stage |-> "input"]
  /\ pc = "idle"
  /\ masksDir = "absent"
  /\ files = [p \in {} |-> Old]
  /\ source = [t \in 1 .. NumTemplates |-> [kind |-> "missing", image |-> NoImage]]
  /\ idx = 1
  /\ layers = <<>>
  /\ li = 1
  /\ shape = [h |-> 0, w |-> 0]
  /\ success_count = 0
  /\ results = [t \in 1 .. NumTemplates |-> "none"]
  /\ printed = <<>>
  /\ preview = <<>>
  /\ exc = "none"
  /\ exitCode = <<>>
  /\ log = <<>>
  /\ par = <<>>

\* remove_background on a decoded image: threshold, closing, opening.
FnRemoveBackground ==
  /\ arg.kind = "source"
  /\ ret.stage = "input"
  /\ ret' = [stage |-> "segmented", mask |-> RemoveBackground(arg.image)]
  /\ UNCHANGED <<arg, batchVars>>

\* Lines 61-62 on a mask: closing, then opening.
FnClean ==
  /\ arg.kind = "mask"
  /\ ret.stage = "input"
  /\ ret' = [stage |-> "cleaned", mask |-> Clean(arg.image, arg.ksize)]
  /\ UNCHANGED <<arg, batchVars>>

\* Lines 61-62 once more, on the mask they produced.
FnCleanAgain ==
  /\ ret.stage = "cleaned"
  /\ ret' = [stage |-> "recleaned", first |-> ret.mask,
             mask |-> Clean(ret.mask, arg.ksize)]
  /\ UNCHANGED <<arg, batchVars>>

CleanerNext == FnRemoveBackground \/ FnClean \/ FnCleanAgain

CleanerSpec == CleanerInit /\ [][CleanerNext]_vars

(***************************************************************************)
(* Claims about the components.                                            *)
(***************************************************************************)
Split == ret.stage \in {"layers", "filtered", "encoded"}

LayerNamed(name) ==
  (CHOOSE i \in 1 .. Len(ret.layers) : ret.layers[i].name = name)

\* m restricted to rows lo .. hi-1, background elsewhere, pixel by pixel.
IsBandOf(layer, m, lo, hi) ==
  /\ layer.h = m.h /\ layer.w = m.w
  /\ Shaped(layer, m.h, m.w)
  /\ \A p \in Pixels(m) :
       At(layer, p) = IF lo <= p[1] /\ p[1] < hi THEN At(m, p) ELSE 0

\* C1: split_clothing_layers returns exactly three layers: topLayer is the
\* input mask in rows [0, floor(0.45h)) and background elsewhere, baseLayer
\* the input mask in rows [floor(0.05h), floor(0.35h)), bottom the input
\* mask in rows [floor(0.45h), h).
C1_LayersAreFloorBands ==
  Split =>
    LET m == arg.image
        h == m.h
    IN  /\ Len(ret.layers) = 3
        /\ {ret.layers[i].name : i \in 1 .. 3} = {"topLayer", "baseLayer", "bottom"}
        /\ IsBandOf(ret.layers[LayerNamed("topLayer")].mask, m, 0, (45 * h) \div 100)
        /\ IsBandOf(ret.layers[LayerNamed("baseLayer")].mask, m,
                    (5 * h) \div 100, (35 * h) \div 100)
        /\ IsBandOf(ret.layers[LayerNamed("bottom")].mask, m, (45 * h) \div 100, h)

\* The rows in which a layer has a foreground pixel.
ForegroundRows(layer) ==
  {r \in 0 .. layer.h - 1 : \E c \in 0 .. layer.w - 1 : layer.px[r][c] = 255}

AllForeground(m) == \A p \in Pixels(m) : At(m, p) = 255

ForegroundCount(m) == Cardinality({p \in Pixels(m) : At(m, p) = 255})

Filtered == ret.stage \in {"filtered", "encoded"}

\* C4: the filter rejects a sub-mask if and only if it has no foreground
\* pixel (whatever its name), or it is baseLayer with fewer foreground
\* pixels than 1% of h*w.
C4_FilterRule ==
  Filtered =>
    \A i \in 1 .. Len(ret.layers) :
      LET n == ForegroundCount(ret.layers[i].mask)
      IN  (~ret.accepted[i]) <=>
            \/ n = 0
            \/ /\ ret.layers[i].name = "baseLayer"
               /\ 100 * n < arg.image.h * arg.image.w

\* C4 witness: a baseLayer with exactly 1% of the pixels is accepted, beside
\* a bottom without foreground that is rejected and a topLayer that is
\* accepted.
C4_Witness ==
  /\ Filtered
  /\ LET b == LayerNamed("baseLayer")
     IN  /\ 100 * ForegroundCount(ret.layers[b].mask) = arg.image.h * arg.image.w
         /\ ret.accepted[b]
  /\ ~ret.accepted[LayerNamed("bottom")]
  /\ ret.accepted[LayerNamed("topLayer")]

Templates == 1 .. NumTemplates

\* The positions in the log of the completed and the failed writes of t.
WritesOf(t) ==
  {i \in 1 .. Len(log) : log[i].op \in {"write", "write_failed"} /\ log[i].t = t}

SavedOf(t) == {i \in 1 .. Len(log) : log[i].op = "write" /\ log[i].t = t}

\* C6: process_clothing_image returns True exactly for a template whose
\* source image was found and decoded, however many layers were accepted;
\* the count printed at the end of a batch is the number of templates whose
\* source loaded, between 0 and the catalog length.
C6_SuccessIffLoaded ==
  /\ \A t \in Templates :
       /\ results[t] = "True" => Loaded(t)
       /\ results[t] = "False" => ~Loaded(t)
       /\ t < idx => results[t] # "none"
  /\ printed # <<>> =>
       /\ printed = << Cardinality({t \in Templates : Loaded(t)}) >>
       /\ printed[1] >= 0 /\ printed[1] <= 4
       /\ \A t \in Templates : results[t] = IF Loaded(t) THEN "True" ELSE "False"

\* C6 witness: the count is printed after a batch in which one loaded
\* template had all three layers rejected and wrote nothing, and another
\* wrote three artifacts.
C6_Witness ==
  /\ printed # <<>>
  /\ \E t, u \in Templates :
       /\ Loaded(t) /\ WritesOf(t) = {} /\ results[t] = "True"
       /\ Loaded(u) /\ Cardinality(SavedOf(u)) = 3 /\ results[u] = "True"

\* C7: a template whose source is missing or undecodable is recorded as a
\* failure and not counted, nothing is written for it, and it never aborts
\* the batch: a run ends with status 1 only at the directory creation, a
\* failed write or the preview, and otherwise every template is taken up.
C7_LoadErrorSkipsTemplate ==
  /\ \A t \in Templates :
       ~Loaded(t) =>
         /\ WritesOf(t) = {}
         /\ results[t] # "True"
         /\ t < idx => results[t] = "False"
  /\ success_count = Cardinality({t \in Templates : results[t] = "True"})
  /\ exitCode = <<1>> =>
       log[Len(log)].op \in {"mkdir", "write_failed", "preview"}
  /\ printed # <<>> =>
       \A t \in Templates : \E i \in 1 .. Len(log) : log[i].op = "load" /\ log[i].t = t

\* C7 witness: a batch has ended with status 0 in which the first source
\* was missing, the second undecodable, and the third was loaded and saved.
C7_Witness ==
  /\ exitCode = <<0>>
  /\ source[1].kind = "missing" /\ results[1] = "False"
  /\ source[2].kind = "undecodable" /\ results[2] = "False"
  /\ SavedOf(3) # {} /\ results[3] = "True"
  /\ printed = <<success_count>>

\* C8: a failed write is the last thing the run does: no further layer or
\* template is processed or written, no count is printed, no preview is
\* written, and the script exits with status 1.
C8_WriteErrorIsFatal ==
  \A i \in 1 .. Len(log) :
    log[i].op = "write_failed" =>
      /\ i = Len(log)
      /\ exc = "save"
      /\ pc = "exit"
      /\ exitCode = <<1>>
      /\ printed = <<>>
      /\ preview = <<>>
      /\ \A t \in Templates : t >= log[i].t => results[t] = "none"
      /\ ~ENABLED Next

\* C8 witness: the write of the second template's baseLayer failed after
\* its topLayer was saved, with a loadable template still to come.
C8_Witness ==
  /\ Len(log) > 0
  /\ log[Len(log)].op = "write_failed"
  /\ log[Len(log)].t = 2
  /\ log[Len(log)].path = "masks/startup-polo-baseLayer.png"
  /\ SavedOf(2) # {}
  /\ Loaded(3)

MkdirCalls == {i \in 1 .. Len(log) : log[i].op = "mkdir"}

C9_Order ==
  /\ Cardinality(MkdirCalls) <= 1
  /\ log # <<>> => log[1].op = "mkdir"
  /\ pc # "mkdir" => Cardinality(MkdirCalls) = 1
  /\ Len(log) >= 2 => masksDir = "dir"
  /\ exc = "mkdir" =>
       /\ Len(log) = 1
       /\ pc = "exit"
       /\ exitCode = <<1>>
       /\ printed = <<>>
       /\ \A t \in Templates : results[t] = "none"
       /\ \A p \in DOMAIN files : files[p] = Old
       /\ ~ENABLED Next

C9_ExistingDirectory ==
  (pc = "mkdir" /\ masksDir = "dir") =>
    /\ pc' = "loop"
    /\ masksDir' = "dir"
    /\ files' = files
    /\ exc' = "none"
    /\ exitCode' = <<>>

\* C9: the directory creation runs exactly once, first, before any load or
\* write; on an existing directory it succeeds and changes nothing; when it
\* fails the run ends at once with nothing loaded and nothing written.
C9_DirectoryCreatedOnceFirst == []C9_Order /\ [][C9_ExistingDirectory]_vars

\* C9 witness: the creation ran on a directory that already held files and
\* a template was then loaded and saved.
C9_Witness ==
  /\ Cardinality(MkdirCalls) = 1
  /\ \E p \in DOMAIN files : files[p] = Old
  /\ \E t \in Templates : SavedOf(t) # {}

ExpectedNames ==
  << {"masks/startup-hoodie-topLayer.png", "masks/startup-hoodie-baseLayer.png",
      "masks/startup-hoodie-bottom.png"},
     {"masks/startup-polo-topLayer.png", "masks/startup-polo-baseLayer.png",
      "masks/startup-polo-bottom.png"},
     {"masks/startup-button_down-topLayer.png",
      "masks/startup-button_down-baseLayer.png",
      "masks/startup-button_down-bottom.png"},
     {"masks/business-casual-topLayer.png", "masks/business-casual-baseLayer.png",
      "masks/business-casual-bottom.png"} >>

ShoesNames ==
  {"masks/startup-hoodie-shoes.png", "masks/startup-polo-shoes.png",
   "masks/startup-button_down-shoes.png", "masks/business-casual-shoes.png"}

ForegroundExactlyRows(layer, lo, hi) ==
  /\ layer.h = 200 /\ layer.w = 100
  /\ Shaped(layer, 200, 100)
  /\ \A p \in Pixels(layer) :
       At(layer, p) = IF lo <= p[1] /\ p[1] <= hi
                       THEN 255 ELSE 0

MidGrayScenario ==
  /\ source[1].kind = "image"
  /\ source[1].image.h = 200 /\ source[1].image.w = 100
  /\ \A p \in Pixels(source[1].image) : At(source[1].image, p) = 128

SavedPaths(t) == {log[i].path : i \in SavedOf(t)}

DarkRows(g) == {r \in 0 .. g.h - 1 : g.px[r][0] <= 230}

UpperGarmentScenario ==
  /\ source[1].kind = "image"
  /\ source[1].image.h = 200 /\ source[1].image.w = 1
  /\ DarkRows(source[1].image) # {}
  /\ \A r \in DarkRows(source[1].image) : r <= 30

BottomUntouched ==
  /\ \A i \in 1 .. Len(log) : log[i].path # "masks/startup-hoodie-bottom.png"
  /\ "masks/startup-hoodie-bottom.png" \in DOMAIN files =>
       files["masks/startup-hoodie-bottom.png"] = Old

SurvivesCleaning(g) ==
  \E a \in DarkRows(g) :
    /\ \A r \in DarkRows(g) : a <= r
    /\ LET n == Cardinality(DarkRows(g))
       IN  n >= 5 \/ (a <= 2 /\ a + n >= 3)

AllBackground(m) == \A p \in Pixels(m) : At(m, p) = 0

\* C13: the segmenter, cleaning included, gives a mask of the image's shape
\* that has no foreground for a uniformly white image and nothing but
\* foreground for a uniformly black one, whatever the image's size.
C13_UniformImages ==
  (arg.kind = "source" /\ ret.stage = "segmented") =>
    /\ Shaped(ret.mask, arg.image.h, arg.image.w)
    /\ (\A p \in Pixels(arg.image) : At(arg.image, p) = 255)
         => AllBackground(ret.mask)
    /\ (\A p \in Pixels(arg.image) : At(arg.image, p) = 0)
         => AllForeground(ret.mask)

\* C13 witness: a black image narrower than the 5 x 5 neighbourhood has been
\* segmented and came out all foreground.
C13_Witness ==
  /\ arg.kind = "source" /\ ret.stage = "segmented"
  /\ arg.image.h = 3 /\ arg.image.w = 2
  /\ arg.image.px[0][0] = 0
  /\ AllForeground(ret.mask)

\* C14: cleaning a cleaned mask gives the cleaned mask again, for either
\* script's kernel.
C14_CleanIdempotent ==
  ret.stage = "recleaned" => ret.mask = ret.first

\* C14 witness: a mask that cleaning changed, with foreground left on the
\* border, has been cleaned a second time.
C14_Witness ==
  /\ ret.stage = "recleaned"
  /\ ret.first # arg.image
  /\ ret.first.h = MaxGrid
  /\ ret.first.px[0][0] = MaxVal
  /\ \E p \in Pixels(ret.first) : At(ret.first, p) = 0
  /\ ret.mask = ret.first

\* m is all foreground but for one background pixel away from the border.
OneInteriorHole(m) ==
  \E p \in Pixels(m) :
    /\ 0 < p[1] /\ p[1] < m.h - 1 /\ 0 < p[2] /\ p[2] < m.w - 1
    /\ \A q \in Pixels(m) : (At(m, q) = 0) <=> (q = p)

\* m is all background but for one foreground pixel, in an image larger than
\* the kernel.
OneSpeckle(m, ksize) ==
  /\ m.h > ksize /\ m.w > ksize
  /\ \E p \in Pixels(m) : \A q \in Pixels(m) : (At(m, q) = MaxVal) <=> (q = p)

\* C17: cleaning fills a one-pixel hole inside an otherwise full mask, and
\* erases a lone foreground pixel wherever it lies in an otherwise empty
\* mask.
C17_SmallDefectsRemoved ==
  (arg.kind = "mask" /\ ret.stage = "cleaned") =>
    /\ OneInteriorHole(arg.image) => AllForeground(ret.mask)
    /\ OneSpeckle(arg.image, arg.ksize) => AllBackground(ret.mask)

(***************************************************************************)
(* Claims about the order of the batch and about what it leaves on disk.   *)
(***************************************************************************)
\* The positions of the log at which a template is loaded or written.
TemplateSteps ==
  {i \in 1 .. Len(log) : log[i].op \in {"load", "write", "write_failed"}}

\* C16: the loads and writes of the log come in catalog order, a template is
\* loaded at most once and before its writes, and the preview is assembled
\* after every template has been taken and before nothing else.
C16_OneTemplateAtATime ==
  /\ \A i, j \in TemplateSteps : i < j => log[i].t <= log[j].t
  /\ \A i, j \in TemplateSteps :
       (log[i].op = "load" /\ log[j].op = "load" /\ log[i].t = log[j].t) => i = j
  /\ \A j \in TemplateSteps :
       log[j].op # "load" =>
         \E i \in 1 .. j - 1 : log[i].op = "load" /\ log[i].t = log[j].t
  /\ \A n \in 1 .. Len(log) :
       log[n].op = "preview" =>
         /\ \A t \in Templates :
              \E i \in 1 .. n - 1 : log[i].op = "load" /\ log[i].t = t
         /\ \A i \in TemplateSteps : i < n

\* C16 witness: the run has ended after the preview, with artifacts written
\* for the first and for the last template.
C16_Witness ==
  /\ pc = "exit" /\ exitCode = <<0>>
  /\ log[Len(log)].op = "preview"
  /\ SavedOf(1) # {} /\ SavedOf(NumTemplates) # {}

\* C18: the baseLayer mask lies inside the topLayer mask, and a template
\* with a baseLayer artifact written has its topLayer artifact written too.
C18_BaseInsideTop ==
  /\ pc = "layer" =>
       /\ layers[1].name = "topLayer" /\ layers[2].name = "baseLayer"
       /\ \A p \in Pixels(layers[2].mask) :
            At(layers[2].mask, p) = 255 => At(layers[1].mask, p) = 255
  /\ \A t \in Templates :
       OutputPath(t, "baseLayer") \in SavedPaths(t)
         => OutputPath(t, "topLayer") \in SavedPaths(t)

\* C18 witness: a template has returned with both artifacts written.
C18_Witness ==
  \E t \in Templates :
    /\ results[t] = "True"
    /\ OutputPath(t, "baseLayer") \in SavedPaths(t)
    /\ OutputPath(t, "topLayer") \in SavedPaths(t)
    /\ \E p \in Pixels(files[OutputPath(t, "topLayer")].image) :
         /\ At(files[OutputPath(t, "topLayer")].image, p)[4] = 255
         /\ At(files[OutputPath(t, "baseLayer")].image, p)[4] = 0

LayerKept ==
  /\ ForegroundCount(layers[li].mask) > 0
  /\ layers[li].name = "baseLayer" =>
       ~LessThanMul(ForegroundCount(layers[li].mask), shape.h * shape.w, F001)

\* C20, one step: no file is deleted; a file that appears or changes is the
\* artifact of the layer at hand, which is an accepted one; a rejected layer
\* leaves every file as it was; a completed write puts the new artifact in
\* the place of whatever the file held.
C20_Step ==
  /\ DOMAIN files \subseteq DOMAIN files'
  /\ \A p \in DOMAIN files' :
       (p \notin DOMAIN files \/ files'[p] # files[p]) =>
         /\ pc = "layer" /\ li <= Len(layers)
         /\ p = OutputPath(idx, layers[li].name)
         /\ LayerKept
  /\ (pc = "layer" /\ li <= Len(layers) /\ ~LayerKept) => files' = files
  /\ (Len(log') > Len(log) /\ log'[Len(log')].op = "write") =>
       files'[log'[Len(log')].path] =
         [kind |-> "png", image |-> MaskArtifact(layers[li].mask)]

\* C20: every step of a run changes the files as C20_Step allows.
C20_OnlyAcceptedLayersWritten == [][C20_Step]_vars

\* C20 witness: a template has returned with its topLayer file replaced by
\* the new artifact and the old file of its rejected bottom layer untouched.
C20_Witness ==
  \E t \in Templates :
    /\ results[t] = "True"
    /\ OutputPath(t, "bottom") \notin SavedPaths(t)
    /\ OutputPath(t, "bottom") \in DOMAIN files
    /\ files[OutputPath(t, "bottom")] = Old
    /\ OutputPath(t, "topLayer") \in SavedPaths(t)
    /\ files[OutputPath(t, "topLayer")].kind = "png"
    /\ \E i \in 1 .. Len(log) : log[i].op = "mkdir"

(***************************************************************************)
(* Claim about the calls run at once.                                      *)
(***************************************************************************)
AllDone == \A t \in 1 .. NumTemplates : par.proc[t].pc = "done"

\* C15: no two templates share an output path, and when every call has
\* ended, however their steps were interleaved, the files are those the
\* loop of main leaves when it takes the templates in catalog order.
C15_InterleavingsAgree ==
  /\ Cardinality(AllPaths) = NumTemplates * Len(PreviewLayers)
  /\ AllDone => files = SequentialFiles(par.disk, 1)

\* C15 witness: every call has ended, with three templates loaded from two
\* different images and their artifacts on disk beside old files.
C15_Witness ==
  /\ AllDone
  /\ results[1] = "True" /\ results[2] = "True" /\ results[3] = "True"
  /\ source[1] # source[2]
  /\ files["masks/startup-hoodie-topLayer.png"].kind = "png"
  /\ files["masks/startup-polo-bottom.png"] # files["masks/startup-hoodie-bottom.png"]
  /\ files["masks/startup-hoodie-shoes.png"] = Old

====
